---- MODULE Spec2Model ----
(***************************************************************************)
(* A model of the go-mcp-registry client: the transport core (Client.Do    *)
(* with its two mutexes and the per-path rate cache), and the ServersService*)
(* operations built on it (pagination aggregation and version resolution). *)
(***************************************************************************)
EXTENDS Integers, Sequences, FiniteSets, TLC

VARIABLES
    pc,          \* caller -> position inside Client.Do
    call,        \* caller -> the arguments of its Do call (ctx, path, v)
    flight,      \* caller -> what c.client.Do(req) returned (resp, err)
    ret,         \* caller -> what Do returned (Response, error, v's content)
    clientMu,    \* holder of c.clientMu, or NoCaller
    rateMu,      \* holder of c.rateMu, or NoCaller
    rateLimits,  \* c.rateLimits: path -> Rate (NoEntry when the key is absent)
    sent,        \* number of requests handed to the transport so far
    svc,         \* the ServersService operation in progress
    cfg          \* the construction of a client and of its requests

vars == <<pc, call, flight, ret, clientMu, rateMu, rateLimits, sent, svc, cfg>>

doVars == <<pc, call, flight, ret, clientMu, rateMu, rateLimits, sent>>

----------------------------------------------------------------------------
(* Values                                                                  *)

Callers == {"c1"}

NoCaller == "none"

Paths == {"/v0.1/servers", "/v0.1/servers/a/versions/latest"}

\* Bound on the number of Do calls one behaviour starts.
MaxCalls == 3

StatusCodes == {200, 201, 404, 429, 500}

CtxKinds == {"nil", "live", "done"}

\* v of Do: nil, an io.Writer, or a pointer to a value to decode into.
VKinds == {"nil", "writer", "value"}

\* time.Time values: 0 is the zero time.
ZeroTime == 0

\* time.Parse(time.RFC3339, s): the parsed time, or the zero time on error.
ParseRFC3339(s) ==
    CASE s = "2030-01-01T00:00:00Z" -> 2030
      [] s = "2031-06-01T12:00:00Z" -> 2031
      [] OTHER -> ZeroTime

\* fmt.Sscanf(s, "%d", &x): x is assigned when s starts with an integer,
\* and left unchanged (zero) otherwise.
SscanfInt(s, old) ==
    CASE s = "100" -> 100
      [] s = "60" -> 60
      [] s = "59" -> 59
      [] s = "0" -> 0
      [] s = "7 per hour" -> 7
      [] OTHER -> old

ZeroRate == [Limit |-> 0, Remaining |-> 0, Reset |-> ZeroTime]

NoEntry == [Limit |-> -1, Remaining |-> -1, Reset |-> ZeroTime]

\* The three rate headers of a response; "" is an absent header.
HeaderSets ==
    { [limit |-> "", remaining |-> "", reset |-> ""],
      [limit |-> "100", remaining |-> "0", reset |-> "2030-01-01T00:00:00Z"],
      [limit |-> "abc", remaining |-> "59", reset |-> "tomorrow"],
      [limit |-> "7 per hour", remaining |-> "", reset |-> "2031-06-01T12:00:00Z"] }

parseRate(h) ==
    LET limit == IF h.limit # "" THEN SscanfInt(h.limit, 0) ELSE 0
        remaining == IF h.remaining # "" THEN SscanfInt(h.remaining, 0) ELSE 0
        v == IF h.reset # "" THEN ParseRFC3339(h.reset) ELSE ZeroTime
    IN  [Limit |-> limit, Remaining |-> remaining,
         Reset |-> IF v # ZeroTime THEN v ELSE ZeroTime]

\* Response bodies: no bytes at all, the JSON value null, bytes that are not
\* JSON, and a JSON object (with its "message" member and its payload).
NoPayload == [type |-> "none"]

EmptyBody == [kind |-> "empty", message |-> "", value |-> NoPayload]

NullBody == [kind |-> "null", message |-> "", value |-> NoPayload]

InvalidBody == [kind |-> "invalid", message |-> "", value |-> NoPayload]

JsonBody(m, x) == [kind |-> "json", message |-> m, value |-> x]

Bodies ==
    { EmptyBody, NullBody, InvalidBody,
      JsonBody("Not found", NoPayload),
      JsonBody("", [type |-> "server", name |-> "a", version |-> "1.0.0",
                    status |-> "active"]) }

NoBody == [kind |-> "unread", message |-> "", value |-> NoPayload]

\* Errors Do can return.
NoErr == [kind |-> "nil", status |-> 0, message |-> "", rate |-> ZeroRate]

ConfigErr(m) == [kind |-> "config", status |-> 0, message |-> m, rate |-> ZeroRate]

CtxErr == [kind |-> "ctx", status |-> 0, message |-> "context canceled", rate |-> ZeroRate]

TransportErr ==
    [kind |-> "transport", status |-> 0, message |-> "connection refused",
     rate |-> ZeroRate]

SyntaxErr ==
    [kind |-> "syntax", status |-> 0, message |-> "invalid character",
     rate |-> ZeroRate]

ErrorResponse(status, m) ==
    [kind |-> "api", status |-> status, message |-> m, rate |-> ZeroRate]

RateLimitError(status, m, rate) ==
    [kind |-> "ratelimit", status |-> status, message |-> m, rate |-> rate]

\* *Response returned by Do: nil, or the http.Response with its parsed Rate.
NilResponse == [isNil |-> TRUE, status |-> 0, rate |-> ZeroRate]

newResponse(r) == [isNil |-> FALSE, status |-> r.status, rate |-> parseRate(r.header)]

\* What v holds after Do: untouched (its zero value), the decoded payload,
\* or the raw bytes copied into the writer.
ZeroOut == [kind |-> "zero", value |-> NoPayload, raw |-> ""]

----------------------------------------------------------------------------
(* Client.Do, as pure steps                                                *)

\* CheckResponse(resp): nil for 2xx; otherwise the error body is parsed as
\* {"message": ...}; 429 gives a RateLimitError carrying the Rate of the
\* response's headers, any other status an ErrorResponse.
CheckResponse(r, body) ==
    IF 200 <= r.status /\ r.status <= 299
    THEN NoErr
    ELSE LET m == IF body.kind = "json" THEN body.message ELSE ""
         IN  IF r.status = 429
             THEN RateLimitError(r.status, m, parseRate(r.header))
             ELSE ErrorResponse(r.status, m)

\* Variant of SendError: the transport's error is returned whatever the
\* state of the context.
SendErrorRaw(ctx) == TransportErr

\* The error Do returns when c.client.Do(req) failed: ctx.Err() when the
\* context is done at that moment, the transport's error otherwise.
SendError(ctx) == IF ctx = "done" THEN CtxErr ELSE TransportErr

\* Variant of DecodeErr: the io.EOF of an empty body is returned like any
\* other error of the decoder.
DecodeErrEOF(body) ==
    IF body.kind = "invalid" THEN SyntaxErr
    ELSE IF body.kind = "empty"
    THEN [kind |-> "eof", status |-> 0, message |-> "EOF", rate |-> ZeroRate]
    ELSE NoErr

\* Variant of DecodeErr: every error of the decoder is ignored, as io.EOF is.
DecodeErrIgnored(body) == NoErr

\* json.NewDecoder(resp.Body).Decode(v): io.EOF on an empty body is ignored,
\* null leaves the zero value, malformed bytes give a *json.SyntaxError.
DecodeErr(body) == IF body.kind = "invalid" THEN SyntaxErr ELSE NoErr

DecodeOut(body) ==
    IF body.kind = "json"
    THEN [kind |-> "decoded", value |-> body.value, raw |-> ""]
    ELSE ZeroOut

\* Variant of Finish: the error of CheckResponse is dropped and the body is
\* decoded whatever the status.
FinishNoCheck(r, body, v) ==
    IF v = "value"
    THEN [resp |-> newResponse(r), err |-> DecodeErr(body), out |-> DecodeOut(body)]
    ELSE [resp |-> newResponse(r), err |-> NoErr, out |-> ZeroOut]

\* Variant of Finish: the body of a successful response is never decoded.
FinishNoDecode(r, body, v) ==
    [resp |-> newResponse(r), err |-> CheckResponse(r, body), out |-> ZeroOut]

\* Variant of Finish: an error of CheckResponse is returned without the
\* Response.
FinishNilResponse(r, body, v) ==
    IF CheckResponse(r, body).kind # "nil"
    THEN [resp |-> NilResponse, err |-> CheckResponse(r, body), out |-> ZeroOut]
    ELSE FinishNoCheck(r, body, v)

\* The tail of Do after the rate has been stored: CheckResponse, then the
\* copy into an io.Writer or the JSON decoding into v.
Finish(r, body, v) ==
    LET response == newResponse(r)
        err == CheckResponse(r, body)
    IN  IF err.kind # "nil"
        THEN [resp |-> response, err |-> err, out |-> ZeroOut]
        ELSE IF v = "nil"
        THEN [resp |-> response, err |-> NoErr, out |-> ZeroOut]
        ELSE IF v = "writer"
        THEN [resp |-> response, err |-> NoErr,
              out |-> [kind |-> "raw", value |-> body.value, raw |-> body.kind]]
        ELSE [resp |-> response, err |-> DecodeErr(body), out |-> DecodeOut(body)]

----------------------------------------------------------------------------
(* Client.Do, step by step for each caller                                 *)

NoCall == [ctx |-> "live", path |-> "", v |-> "nil"]

\* seq numbers the sends of the client in the order the transport completed
\* them, 0 when nothing was sent.
NoFlight == [err |-> FALSE, status |-> 0,
             header |-> [limit |-> "", remaining |-> "", reset |-> ""], seq |-> 0]

NoRet == [resp |-> NilResponse, err |-> NoErr, out |-> ZeroOut, body |-> NoBody]

\* Variant of DoStart: a nil context is treated as context.Background().
DoStartBackground(p, ctx, path, v) ==
    /\ pc[p] = "idle"
    /\ sent < MaxCalls
    /\ call' = [call EXCEPT ![p] = [ctx |-> ctx, path |-> path, v |-> v]]
    /\ pc' = [pc EXCEPT ![p] = "lock"]
    /\ ret' = [ret EXCEPT ![p] = NoRet]
    /\ UNCHANGED <<flight, clientMu, rateMu, rateLimits, sent, svc, cfg>>

\* Do is entered: a nil context fails at once, before anything else.
DoStart(p, ctx, path, v) ==
    /\ pc[p] = "idle"
    /\ sent < MaxCalls
    /\ call' = [call EXCEPT ![p] = [ctx |-> ctx, path |-> path, v |-> v]]
    /\ IF ctx = "nil"
       THEN /\ pc' = [pc EXCEPT ![p] = "done"]
            /\ ret' = [ret EXCEPT ![p] =
                   [NoRet EXCEPT !.err = ConfigErr("context must be non-nil")]]
       ELSE /\ pc' = [pc EXCEPT ![p] = "lock"]
            /\ ret' = [ret EXCEPT ![p] = NoRet]
    /\ UNCHANGED <<flight, clientMu, rateMu, rateLimits, sent, svc, cfg>>

\* Variant of DoLock: the caller goes on to the send without waiting for
\* the mutex to be free.
DoLockNoWait(p) ==
    /\ pc[p] = "lock"
    /\ clientMu' = p
    /\ pc' = [pc EXCEPT ![p] = "send"]
    /\ UNCHANGED <<call, flight, ret, rateMu, rateLimits, sent, svc, cfg>>

\* c.clientMu.Lock()
DoLock(p) ==
    /\ pc[p] = "lock"
    /\ clientMu = NoCaller
    /\ clientMu' = p
    /\ pc' = [pc EXCEPT ![p] = "send"]
    /\ UNCHANGED <<call, flight, ret, rateMu, rateLimits, sent, svc, cfg>>

\* resp, err := c.client.Do(req): the transport fails, or delivers the
\* status line and headers of a response. A request whose context is
\* already done is never answered.
DoSend(p, fails, status, header) ==
    /\ pc[p] = "send"
    /\ call[p].ctx = "done" => fails
    /\ flight' = [flight EXCEPT ![p] =
           IF fails THEN [NoFlight EXCEPT !.err = TRUE]
           ELSE [err |-> FALSE, status |-> status, header |-> header, seq |-> sent + 1]]
    /\ sent' = sent + 1
    /\ pc' = [pc EXCEPT ![p] = "unlock"]
    /\ UNCHANGED <<call, ret, clientMu, rateMu, rateLimits, svc, cfg>>

\* c.clientMu.Unlock()
DoUnlock(p) ==
    /\ pc[p] = "unlock"
    /\ clientMu' = NoCaller
    /\ pc' = [pc EXCEPT ![p] = "errcheck"]
    /\ UNCHANGED <<call, flight, ret, rateMu, rateLimits, sent, svc, cfg>>

\* Variant of DoErrCheck: a failed send resets the cache entry of the path.
DoErrCheckResets(p) ==
    /\ pc[p] = "errcheck"
    /\ IF flight[p].err
       THEN /\ ret' = [ret EXCEPT ![p] = [NoRet EXCEPT !.err = SendError(call[p].ctx)]]
            /\ pc' = [pc EXCEPT ![p] = "done"]
            /\ rateLimits' = [rateLimits EXCEPT ![call[p].path] = ZeroRate]
       ELSE /\ ret' = ret
            /\ pc' = [pc EXCEPT ![p] = "rateLock"]
            /\ rateLimits' = rateLimits
    /\ UNCHANGED <<call, flight, clientMu, rateMu, sent, svc, cfg>>

\* if err != nil { select { case <-ctx.Done(): return nil, ctx.Err() ... }
DoErrCheck(p) ==
    /\ pc[p] = "errcheck"
    /\ IF flight[p].err
       THEN /\ ret' = [ret EXCEPT ![p] = [NoRet EXCEPT !.err = SendError(call[p].ctx)]]
            /\ pc' = [pc EXCEPT ![p] = "done"]
       ELSE /\ ret' = ret
            /\ pc' = [pc EXCEPT ![p] = "rateLock"]
    /\ UNCHANGED <<call, flight, clientMu, rateMu, rateLimits, sent, svc, cfg>>

\* c.rateMu.Lock()
DoRateLock(p) ==
    /\ pc[p] = "rateLock"
    /\ rateMu = NoCaller
    /\ rateMu' = p
    /\ pc' = [pc EXCEPT ![p] = "rateStore"]
    /\ UNCHANGED <<call, flight, ret, clientMu, rateLimits, sent, svc, cfg>>

\* Variant of DoRateStore: the rate is recorded for successful responses
\* only.
DoRateStoreOnSuccess(p) ==
    /\ pc[p] = "rateStore"
    /\ rateLimits' =
           IF 200 <= flight[p].status /\ flight[p].status <= 299
           THEN [rateLimits EXCEPT ![call[p].path] = newResponse(flight[p]).rate]
           ELSE rateLimits
    /\ pc' = [pc EXCEPT ![p] = "rateUnlock"]
    /\ UNCHANGED <<call, flight, ret, clientMu, rateMu, sent, svc, cfg>>

\* c.rateLimits[req.URL.Path] = response.Rate
DoRateStore(p) ==
    /\ pc[p] = "rateStore"
    /\ rateLimits' = [rateLimits EXCEPT ![call[p].path] = newResponse(flight[p]).rate]
    /\ pc' = [pc EXCEPT ![p] = "rateUnlock"]
    /\ UNCHANGED <<call, flight, ret, clientMu, rateMu, sent, svc, cfg>>

\* Variant of DoRateUnlock: the caller goes on without releasing the mutex.
DoRateUnlockMissing(p) ==
    /\ pc[p] = "rateUnlock"
    /\ pc' = [pc EXCEPT ![p] = "check"]
    /\ UNCHANGED <<call, flight, ret, clientMu, rateMu, rateLimits, sent, svc, cfg>>

\* c.rateMu.Unlock()
DoRateUnlock(p) ==
    /\ pc[p] = "rateUnlock"
    /\ rateMu' = NoCaller
    /\ pc' = [pc EXCEPT ![p] = "check"]
    /\ UNCHANGED <<call, flight, ret, clientMu, rateLimits, sent, svc, cfg>>

\* err = CheckResponse(resp) and the decoding of the body, which is read
\* from the connection only now.
DoCheck(p, body) ==
    /\ pc[p] = "check"
    /\ ret' = [ret EXCEPT ![p] =
           [resp |-> Finish(flight[p], body, call[p].v).resp,
            err |-> Finish(flight[p], body, call[p].v).err,
            out |-> Finish(flight[p], body, call[p].v).out,
            body |-> body]]
    /\ pc' = [pc EXCEPT ![p] = "done"]
    /\ UNCHANGED <<call, flight, clientMu, rateMu, rateLimits, sent, svc, cfg>>

\* The caller cancels its context while the request is under way.
Cancel(p) ==
    /\ pc[p] \in {"lock", "send", "unlock", "errcheck"}
    /\ call[p].ctx = "live"
    /\ call' = [call EXCEPT ![p].ctx = "done"]
    /\ UNCHANGED <<pc, flight, ret, clientMu, rateMu, rateLimits, sent, svc, cfg>>

\* The caller takes Do's results and is free to call again.
DoReturn(p) ==
    /\ pc[p] = "done"
    /\ pc' = [pc EXCEPT ![p] = "idle"]
    /\ call' = [call EXCEPT ![p] = NoCall]
    /\ flight' = [flight EXCEPT ![p] = NoFlight]
    /\ ret' = [ret EXCEPT ![p] = NoRet]
    /\ UNCHANGED <<clientMu, rateMu, rateLimits, sent, svc, cfg>>

----------------------------------------------------------------------------
(* Client.Do as one step, for the operations that call it in sequence      *)

NoHeaders == [limit |-> "", remaining |-> "", reset |-> ""]

\* What one complete Do call returns for a given transport outcome.
DoOnce(ctx, ans, v) ==
    IF ctx = "nil"
    THEN [resp |-> NilResponse, err |-> ConfigErr("context must be non-nil"),
          out |-> ZeroOut]
    ELSE IF ans.fails \/ ctx = "done"
    THEN [resp |-> NilResponse, err |-> SendError(ctx), out |-> ZeroOut]
    ELSE Finish([err |-> FALSE, status |-> ans.status, header |-> NoHeaders],
                ans.body, v)

\* The rate cache after that Do call.
DoOnceRates(ctx, ans, path) ==
    IF ctx = "nil" \/ ans.fails \/ ctx = "done"
    THEN rateLimits
    ELSE [rateLimits EXCEPT ![path] = parseRate(NoHeaders)]

----------------------------------------------------------------------------
(* The registry's records and answers                                      *)

\* Bound on the number of page requests one aggregate fetch is served.
MaxPages == 3

\* Bound on the number of records in one search response.
MaxRecs == 2

DefaultLimit == 100

ListPath == "/v0.1/servers"

VersionPath == "/v0.1/servers/a/versions/latest"

Cursors == {"page2", "page3"}

\* updatedAt of the registry metadata of the records served.
FixtureUpdatedAt == 2024

\* A ServerResponse of a list: the record, and the status ("" when the
\* metadata block is absent) and updatedAt of its official registry metadata.
SR(n, ver, st) ==
    [type |-> "server", name |-> n, version |-> ver, status |-> st,
     updatedAt |-> FixtureUpdatedAt]

\* The unwrapped ServerJSON handed to callers: no registry metadata.
ServerJSON(sr) == [isNil |-> FALSE, name |-> sr.name, version |-> sr.version]

NilServer == [isNil |-> TRUE, name |-> "", version |-> ""]

\* Pages of the plain listing.
Pages ==
    { <<>>,
      <<SR("server1", "1.0.0", "active")>>,
      <<SR("server1", "1.0.0", "active"), SR("server2", "2.0.0", "active")>>,
      <<SR("server2", "2.0.0", "active"), SR("server1", "1.0.0", "active")>>,
      <<SR("server3", "3.0.0", "deprecated"), SR("server3", "3.0.0", "deprecated")>> }

Names == {"exact-name", "exact-name-plus"}

Versions == {"1.5.0", "1.5.0+b1", "2.0.0-rc1", "2.0.0", "not-semver"}

Statuses == {"active", "deprecated", ""}

\* Records a search for a name can bring back: every version and status of
\* the exact name, and a near match.
SearchRecords ==
    {SR("exact-name", ver, st) : ver \in Versions, st \in Statuses}
        \cup {SR("exact-name-plus", "2.0.0", "active")}

RECURSIVE SeqsUpTo(_, _)
SeqsUpTo(S, n) ==
    IF n = 0 THEN {<<>>}
    ELSE LET shorter == SeqsUpTo(S, n - 1)
         IN  shorter \cup {Append(q, x) : q \in shorter, x \in S}

SearchPages == SeqsUpTo(SearchRecords, MaxRecs)

ListBody(servers, cursor) ==
    JsonBody("", [type |-> "list", servers |-> servers, nextCursor |-> cursor])

Fails == [fails |-> TRUE, status |-> 0, body |-> NoBody]

Answer(status, body) == [fails |-> FALSE, status |-> status, body |-> body]

ErrorAnswers ==
    {Fails, Answer(200, InvalidBody)}
        \cup {Answer(st, JsonBody("Internal server error", NoPayload)) : st \in {429, 500}}
        \cup {Answer(404, JsonBody("Not found", NoPayload))}

\* What the registry may answer a list request with; more tells whether a
\* further page may be announced.
ListAnswers(pages, more) ==
    ErrorAnswers
        \cup {Answer(200, ListBody(s, c)) :
                 s \in pages, c \in (IF more THEN Cursors ELSE {}) \cup {""}}
        \cup {Answer(200, EmptyBody)}

GetAnswers ==
    ErrorAnswers
        \cup {Answer(200, JsonBody("", SR("a", ver, "active"))) : ver \in {"1.0.0", "2.0.0"}}
        \cup {Answer(200, NullBody), Answer(200, EmptyBody)}

----------------------------------------------------------------------------
(* Requests of the ServersService                                          *)

\* ServerListOptions with every field at its zero value.
ZeroOpts == [cursor |-> "", limit |-> 0, search |-> "", updated_since |-> "",
             version |-> ""]

\* strconv of the page size in the query string.
Itoa(n) ==
    CASE n = 100 -> "100"
      [] n = 50 -> "50"
      [] OTHER -> "0"

\* since.Format(time.RFC3339)
FormatRFC3339(t) ==
    CASE t = 2024 -> "2024-01-01T00:00:00Z"
      [] t = 2025 -> "2025-07-01T08:30:00Z"
      [] OTHER -> "0001-01-01T00:00:00Z"

Param(key, value) == IF value = "" THEN <<>> ELSE <<(<<key, value>>)>>

\* Variant of EncodeOpts: a page cursor is encoded alone.
EncodeOptsCursorAlone(opts) ==
    IF opts.cursor # "" THEN Param("cursor", opts.cursor)
    ELSE (IF opts.limit = 0 THEN <<>> ELSE <<(<<"limit", Itoa(opts.limit)>>)>>)
             \o Param("search", opts.search)
             \o Param("updated_since", opts.updated_since)
             \o Param("version", opts.version)

\* Variant of EncodeOpts: a zero page size is encoded as the default one.
EncodeOptsDefaultLimit(opts) ==
    Param("cursor", opts.cursor)
        \o <<(<<"limit", Itoa(IF opts.limit = 0 THEN DefaultLimit ELSE opts.limit)>>)>>
        \o Param("search", opts.search)
        \o Param("updated_since", opts.updated_since)
        \o Param("version", opts.version)

\* query.Values(opts).Encode(): the non-zero fields, sorted by key.
EncodeOpts(opts) ==
    Param("cursor", opts.cursor)
        \o (IF opts.limit = 0 THEN <<>> ELSE <<(<<"limit", Itoa(opts.limit)>>)>>)
        \o Param("search", opts.search)
        \o Param("updated_since", opts.updated_since)
        \o Param("version", opts.version)

\* Variant of addOptions: an empty page cursor makes it return s unchanged.
addOptionsNeedsCursor(url, opts) ==
    IF opts.cursor = "" THEN url
    ELSE [path |-> url.path, query |-> url.query \o EncodeOpts(opts)]

\* addOptions(s, opts): the encoded options go after the query s already has.
addOptions(url, opts) == [path |-> url.path, query |-> url.query \o EncodeOpts(opts)]

ListURL(opts) == addOptions([path |-> ListPath, query |-> <<>>], opts)

VersionURL(name, version) ==
    [path |-> VersionPath, query |-> <<>>, name |-> name,
     version |-> IF version = "" THEN "latest" ELSE version]

----------------------------------------------------------------------------
(* URLs. A string is the sequence of its tokens: each of the characters    *)
(* : / ? & = is a token of its own and a run of other characters is one     *)
(* token.                                                                  *)

\* Tokens that begin with a digit: they cannot begin a scheme.
DigitTokens == {"8080", "10"}

Separators == {":", "/", "?", "&", "="}

\* strings.Index: the position of the first tok in s, 0 when there is none.
Index(s, tok) ==
    IF \E i \in 1..Len(s) : s[i] = tok
    THEN CHOOSE i \in 1..Len(s) : s[i] = tok /\ \A j \in 1..(i - 1) : s[j] # tok
    ELSE 0

\* strings.LastIndex
LastIndex(s, tok) ==
    IF \E i \in 1..Len(s) : s[i] = tok
    THEN CHOOSE i \in 1..Len(s) : s[i] = tok /\ \A j \in (i + 1)..Len(s) : s[j] # tok
    ELSE 0

HasPrefix(s, prefix) == Len(s) >= Len(prefix) /\ SubSeq(s, 1, Len(prefix)) = prefix

HasSuffix(s, suffix) ==
    Len(s) >= Len(suffix) /\ SubSeq(s, Len(s) - Len(suffix) + 1, Len(s)) = suffix

\* A *url.URL.
NoURL == [scheme |-> "", opaque |-> <<>>, host |-> <<>>, path |-> <<>>,
          query |-> <<>>, forceQuery |-> FALSE]

\* getScheme of net/url: a leading ':' is an error, letters (then digits,
\* '+', '-', '.') up to a ':' are the scheme, anything else is no scheme.
getScheme(s) ==
    IF s # <<>> /\ s[1] = ":"
    THEN [err |-> TRUE, scheme |-> "", rest |-> <<>>]
    ELSE IF Len(s) >= 2 /\ s[1] \notin Separators \cup DigitTokens /\ s[2] = ":"
    THEN [err |-> FALSE, scheme |-> s[1], rest |-> SubSeq(s, 3, Len(s))]
    ELSE [err |-> FALSE, scheme |-> "", rest |-> s]

\* The one element of a singleton set.
Only(S) == CHOOSE x \in S : TRUE

\* The cut of url.Parse at the first '?': what is before it, the raw query
\* after it, and ForceQuery for a lone trailing '?'.
CutQuery(rest) ==
    Only({[rest |-> IF q = 0 THEN rest ELSE SubSeq(rest, 1, q - 1),
           query |-> IF q = 0 THEN <<>> ELSE SubSeq(rest, q + 1, Len(rest)),
           forceQuery |-> (q # 0 /\ q = Len(rest))] : q \in {Index(rest, "?")}})

\* url.Parse after the scheme and the query are split off: an opaque part,
\* or //authority and a path, or a path alone.
ParseRest(sch, cut) ==
    LET u == [NoURL EXCEPT !.scheme = sch.scheme, !.query = cut.query,
                           !.forceQuery = cut.forceQuery]
        slash == Index(cut.rest, "/")
        colon == Index(cut.rest, ":")
        authority == SubSeq(cut.rest, 3, Len(cut.rest))
        i == Index(authority, "/")
    IN  IF ~HasPrefix(cut.rest, <<"/">>) /\ sch.scheme # ""
        THEN [err |-> "", url |-> [u EXCEPT !.opaque = cut.rest]]
        ELSE IF ~HasPrefix(cut.rest, <<"/">>) /\ colon # 0 /\ (slash = 0 \/ colon < slash)
        THEN [err |-> "first path segment in URL cannot contain colon", url |-> NoURL]
        ELSE IF HasPrefix(cut.rest, <<"/", "/">>)
                    /\ (sch.scheme # "" \/ ~HasPrefix(cut.rest, <<"/", "/", "/">>))
        THEN [err |-> "",
              url |-> [u EXCEPT !.host = IF i = 0 THEN authority
                                         ELSE SubSeq(authority, 1, i - 1),
                                !.path = IF i = 0 THEN <<>>
                                         ELSE SubSeq(authority, i, Len(authority))]]
        ELSE [err |-> "", url |-> [u EXCEPT !.path = cut.rest]]

\* url.Parse(s)
Parse(s) ==
    Only({IF sch.err THEN [err |-> "missing protocol scheme", url |-> NoURL]
          ELSE Only({ParseRest(sch, cut) : cut \in {CutQuery(sch.rest)}}) :
             sch \in {getScheme(s)}})

\* (*url.URL).String()
String(u) ==
    (IF u.scheme # "" THEN <<u.scheme, ":">> ELSE <<>>)
        \o (IF u.opaque # <<>> THEN u.opaque
            ELSE (IF (u.scheme # "" \/ u.host # <<>>) /\ (u.host # <<>> \/ u.path # <<>>)
                  THEN <<"/", "/">> \o u.host ELSE <<>>)
                     \o (IF u.path # <<>> /\ u.path[1] # "/" /\ u.host # <<>>
                         THEN <<"/">> ELSE <<>>)
                     \o u.path)
        \o (IF u.forceQuery \/ u.query # <<>> THEN <<"?">> \o u.query ELSE <<>>)

\* (*url.URL).ResolveReference(ref), for references without dot segments.
ResolveReference(base, ref) ==
    IF ref.scheme # "" THEN ref
    ELSE IF ref.host # <<>> THEN [ref EXCEPT !.scheme = base.scheme]
    ELSE IF ref.path = <<>> /\ base.opaque # <<>>
    THEN [base EXCEPT !.query = IF ref.query = <<>> /\ ~ref.forceQuery THEN @ ELSE ref.query,
                      !.forceQuery = ref.forceQuery]
    ELSE IF ref.path = <<>>
    THEN [base EXCEPT !.query = IF ref.query = <<>> /\ ~ref.forceQuery THEN @ ELSE ref.query,
                      !.forceQuery = ref.forceQuery]
    ELSE [ref EXCEPT !.scheme = base.scheme, !.host = base.host,
                     !.path = IF ref.path[1] = "/" THEN ref.path
                              ELSE SubSeq(base.path, 1, LastIndex(base.path, "/"))
                                       \o ref.path]

----------------------------------------------------------------------------
(* NewClient, WithBaseURL, NewRequest, addOptions on strings                *)

\* Bound on the number of options handed to NewClient.
MaxOpts == 2

defaultBaseURL == <<"https", ":", "/", "/", "registry.modelcontextprotocol.io", "/">>

userAgent == "go-mcp-registry/v0.1.0"

mediaTypeJSON == "application/json"

NoError == [msg |-> "", detail |-> ""]

Errorf(msg, detail) == [msg |-> msg, detail |-> detail]

\* The base URLs handed to WithBaseURL.
BaseURLs ==
    { <<>>,
      <<"not-a-url">>,
      <<"example.com", "/">>,
      <<":", "/", "/", "invalid-url">>,
      <<"localhost", ":", "8080", "/", "api">>,
      <<"ftp", ":", "/", "/", "example.com", "/">>,
      <<"http", ":", "opaque">>,
      <<"https", ":", "/", "/", "example.com">>,
      <<"https", ":", "/", "/", "example.com", "/">>,
      <<"http", ":", "/", "/", "localhost", ":", "8080", "/", "api">>,
      <<"https", ":", "/", "/", "example.com", "/", "api", "/", "v1", "/">>,
      <<"https", ":", "/", "/", "example.com", "/", "api", "/", "/">>,
      <<"https", ":", "/", "/", "example.com", "/", "api", "/", "v1", "?", "param", "=",
        "value">> }

\* Variant of WithBaseURL: the separator is appended whatever the path
\* ends with.
WithBaseURLAlwaysAppends(baseURL, old) ==
    LET parsed == Parse(baseURL)
    IN  IF baseURL = <<>> \/ parsed.err # "" \/ parsed.url.scheme \notin {"http", "https"}
        THEN [err |-> Errorf("invalid base URL", ""), BaseURL |-> old]
        ELSE [err |-> NoError, BaseURL |-> [parsed.url EXCEPT !.path = @ \o <<"/">>]]

\* Variant of WithBaseURL: the parsed URL is stored as it is.
WithBaseURLAsGiven(baseURL, old) ==
    LET parsed == Parse(baseURL)
    IN  IF baseURL = <<>> \/ parsed.err # "" \/ parsed.url.scheme \notin {"http", "https"}
        THEN [err |-> Errorf("invalid base URL", ""), BaseURL |-> old]
        ELSE [err |-> NoError, BaseURL |-> parsed.url]

\* The option WithBaseURL(baseURL) applied to a client whose BaseURL is old.
WithBaseURL(baseURL, old) ==
    LET parsed == Parse(baseURL)
    IN  IF baseURL = <<>>
        THEN [err |-> Errorf("base URL cannot be empty", ""), BaseURL |-> old]
        ELSE IF parsed.err # ""
        THEN [err |-> Errorf("invalid base URL", parsed.err), BaseURL |-> old]
        ELSE IF parsed.url.scheme # "http" /\ parsed.url.scheme # "https"
        THEN [err |-> Errorf("base URL must use HTTP or HTTPS scheme", parsed.url.scheme),
              BaseURL |-> old]
        ELSE [err |-> NoError,
              BaseURL |-> [parsed.url EXCEPT
                              !.path = IF HasSuffix(@, <<"/">>) THEN @ ELSE @ \o <<"/">>]]

NilClient == [isNil |-> TRUE, BaseURL |-> NoURL, UserAgent |-> ""]

\* The loop of NewClient over its options: it stops at the first error.
\* last is the option applied last.
RECURSIVE ApplyOptions(_, _, _)
ApplyOptions(opts, BaseURL, last) ==
    IF opts = <<>> THEN [err |-> NoError, BaseURL |-> BaseURL, last |-> last]
    ELSE LET r == WithBaseURL(Head(opts), BaseURL)
         IN  IF r.err # NoError
             THEN [err |-> r.err, BaseURL |-> BaseURL, last |-> Head(opts)]
             ELSE ApplyOptions(Tail(opts), r.BaseURL, Head(opts))

\* NewClient(httpClient, opts...)
NewClient(opts) ==
    LET r == ApplyOptions(opts, Parse(defaultBaseURL).url, defaultBaseURL)
    IN  IF r.err # NoError
        THEN [client |-> NilClient, err |-> r.err, last |-> r.last]
        ELSE [client |-> [isNil |-> FALSE, BaseURL |-> r.BaseURL, UserAgent |-> userAgent],
              err |-> NoError, last |-> r.last]

NilRequest == [isNil |-> TRUE, method |-> "", url |-> NoURL, accept |-> "",
               contentType |-> "", userAgent |-> ""]

\* c.NewRequest(method, urlStr, body); body is "nil", "json" or "unencodable".
NewRequest(c, method, urlStr, body) ==
    LET ref == Parse(urlStr)
    IN  IF ~HasSuffix(c.BaseURL.path, <<"/">>)
        THEN [req |-> NilRequest, err |-> Errorf("BaseURL must have a trailing slash", "")]
        ELSE IF ref.err # ""
        THEN [req |-> NilRequest, err |-> Errorf("parse", ref.err)]
        ELSE IF body = "unencodable"
        THEN [req |-> NilRequest, err |-> Errorf("json: unsupported type", "")]
        ELSE [req |-> [isNil |-> FALSE, method |-> method,
                       url |-> ResolveReference(c.BaseURL, ref.url),
                       accept |-> mediaTypeJSON,
                       contentType |-> IF body # "nil" THEN mediaTypeJSON ELSE "",
                       userAgent |-> c.UserAgent],
              err |-> NoError]

\* A nil opts value.
NilOpts == [isNil |-> TRUE]

\* query.Values(opts).Encode(): key=value pairs sorted by key, joined by &.
RECURSIVE Encode(_)
Encode(pairs) ==
    IF pairs = <<>> THEN <<>>
    ELSE <<Head(pairs)[1], "=", Head(pairs)[2]>>
             \o (IF Tail(pairs) = <<>> THEN <<>> ELSE <<"&">> \o Encode(Tail(pairs)))

Values(opts) == IF opts = NilOpts THEN <<>> ELSE EncodeOpts(opts)

\* Variant of addOptionsString: the encoded options replace the query.
addOptionsOverwrites(s, opts) ==
    LET q == Encode(Values(opts))
        u == Parse(s)
    IN  IF u.err # "" THEN [s |-> s, err |-> Errorf("parse", u.err)]
        ELSE [s |-> String([u.url EXCEPT !.query = IF q # <<>> THEN q ELSE @]),
              err |-> NoError]

\* addOptions(s, opts) on the string s.
addOptionsString(s, opts) ==
    LET q == Encode(Values(opts))
        u == Parse(s)
    IN  IF u.err # "" THEN [s |-> s, err |-> Errorf("parse", u.err)]
        ELSE [s |-> String([u.url EXCEPT
                               !.query = IF q = <<>> THEN @
                                         ELSE IF @ # <<>> THEN @ \o <<"&">> \o q
                                         ELSE q]),
              err |-> NoError]

\* The strings and options handed to addOptions.
OptionPaths ==
    { <<"v0.1", "/", "servers">>,
      <<"v0.1", "/", "servers", "?", "existing", "=", "param">>,
      <<"v0.1", "/", "servers", "?", "limit", "=", "10", "&", "a", "=", "b">>,
      <<":", "/", "/", "invalid">> }

OptionValues ==
    { NilOpts, ZeroOpts,
      [ZeroOpts EXCEPT !.limit = 100],
      [ZeroOpts EXCEPT !.limit = 50, !.cursor = "abc123"],
      [ZeroOpts EXCEPT !.search = "exact-name", !.version = "latest", !.limit = 100],
      [ZeroOpts EXCEPT !.updated_since = "2024-01-01T00:00:00Z", !.cursor = "page2"] }

NoAdded == [called |-> FALSE, s |-> <<>>, opts |-> NilOpts, out |-> <<>>, err |-> NoError]

NoCfg == [made |-> FALSE, last |-> <<>>, count |-> 0, client |-> NilClient, err |-> NoError,
          reassigned |-> FALSE, added |-> NoAdded,
          built |-> FALSE, urlStr |-> <<>>, body |-> "nil", req |-> NilRequest,
          reqErr |-> NoError]

\* client, err := NewClient(nil, opts...)
NewClientCall(opts) ==
    /\ ~cfg.made
    /\ cfg' = [NoCfg EXCEPT !.made = TRUE, !.last = NewClient(opts).last,
                            !.count = Len(opts),
                            !.client = NewClient(opts).client,
                            !.err = NewClient(opts).err]
    /\ UNCHANGED <<doVars, svc>>

\* c.BaseURL = u: the exported field is assigned after construction.
SetBaseURL(s) ==
    /\ cfg.made /\ ~cfg.client.isNil /\ ~cfg.reassigned /\ ~cfg.built
    /\ Parse(s).err = ""
    /\ cfg' = [cfg EXCEPT !.client.BaseURL = Parse(s).url, !.reassigned = TRUE]
    /\ UNCHANGED <<doVars, svc>>

\* u, err := addOptions(s, opts)
AddOptions(s, opts) ==
    /\ cfg.made /\ ~cfg.client.isNil /\ ~cfg.added.called /\ ~cfg.built
    /\ cfg' = [cfg EXCEPT !.added = [called |-> TRUE, s |-> s, opts |-> opts,
                                     out |-> addOptionsString(s, opts).s,
                                     err |-> addOptionsString(s, opts).err]]
    /\ UNCHANGED <<doVars, svc>>

\* req, err := c.NewRequest("GET", urlStr, body)
NewRequestCall(urlStr, body) ==
    /\ cfg.made /\ ~cfg.client.isNil /\ ~cfg.built
    /\ cfg' = [cfg EXCEPT !.built = TRUE, !.urlStr = urlStr, !.body = body,
                          !.req = NewRequest(cfg.client, "GET", urlStr, body).req,
                          !.reqErr = NewRequest(cfg.client, "GET", urlStr, body).err]
    /\ UNCHANGED <<doVars, svc>>

\* The client and its request are dropped.
Discard ==
    /\ cfg.made /\ (cfg.client.isNil \/ cfg.built)
    /\ cfg' = NoCfg
    /\ UNCHANGED <<doVars, svc>>

----------------------------------------------------------------------------
(* Semantic versions                                                       *)

\* The parse of a version string: ok is FALSE when it is no semantic version.
ParseSemver(s) ==
    CASE s = "1.5.0" ->
             [ok |-> TRUE, major |-> 1, minor |-> 5, patch |-> 0, pre |-> "", build |-> ""]
      [] s = "1.5.0+b1" ->
             [ok |-> TRUE, major |-> 1, minor |-> 5, patch |-> 0, pre |-> "", build |-> "b1"]
      [] s = "2.0.0-rc1" ->
             [ok |-> TRUE, major |-> 2, minor |-> 0, patch |-> 0, pre |-> "rc1", build |-> ""]
      [] s = "2.0.0" ->
             [ok |-> TRUE, major |-> 2, minor |-> 0, patch |-> 0, pre |-> "", build |-> ""]
      [] OTHER ->
             [ok |-> FALSE, major |-> 0, minor |-> 0, patch |-> 0, pre |-> "", build |-> ""]

\* Variant of GreaterThan: versions of equal precedence count as greater.
GreaterThanOrEqual(a, b) ==
    \/ a.major > b.major
    \/ a.major = b.major /\ a.minor > b.minor
    \/ a.major = b.major /\ a.minor = b.minor /\ a.patch > b.patch
    \/ /\ a.major = b.major /\ a.minor = b.minor /\ a.patch = b.patch
       /\ (a.pre = "" \/ b.pre # "")

\* Precedence: major, minor, patch, then a pre-release ranks below the
\* release; build metadata is ignored.
GreaterThan(a, b) ==
    \/ a.major > b.major
    \/ a.major = b.major /\ a.minor > b.minor
    \/ a.major = b.major /\ a.minor = b.minor /\ a.patch > b.patch
    \/ /\ a.major = b.major /\ a.minor = b.minor /\ a.patch = b.patch
       /\ a.pre = "" /\ b.pre # ""

----------------------------------------------------------------------------
(* ServersService                                                          *)

EmptyList == [type |-> "list", servers |-> <<>>, nextCursor |-> ""]

\* List(ctx, opts): one request; the decoded ServerListResponse, or the
\* error of Do with no list.
List(ctx, ans) ==
    LET d == DoOnce(ctx, ans, "value")
    IN  [list |-> IF d.err.kind = "nil" /\ d.out.kind = "decoded"
                           /\ d.out.value.type = "list"
                  THEN d.out.value ELSE EmptyList,
         resp |-> d.resp, err |-> d.err]

Unwrap(servers) == [i \in 1..Len(servers) |-> ServerJSON(servers[i])]

\* The records whose name is exactly name, in the order received.
RECURSIVE ExactMatches(_, _)
ExactMatches(servers, name) ==
    IF servers = <<>> THEN <<>>
    ELSE (IF Head(servers).name = name THEN <<Head(servers)>> ELSE <<>>)
             \o ExactMatches(Tail(servers), name)

IsCandidate(sr, name) ==
    sr.name = name /\ sr.status = "active" /\ ParseSemver(sr.version).ok

\* The scan of GetByNameLatestActiveVersion: the best candidate so far is
\* replaced only by a strictly greater version.
RECURSIVE LatestActive(_, _, _)
LatestActive(servers, name, best) ==
    IF servers = <<>> THEN best
    ELSE LET sr == Head(servers)
             take == /\ IsCandidate(sr, name)
                     /\ \/ best.isNil
                        \/ GreaterThan(ParseSemver(sr.version), ParseSemver(best.version))
         IN  LatestActive(Tail(servers), name, IF take THEN ServerJSON(sr) ELSE best)

NoResult == [servers |-> <<>>, server |-> NilServer, resp |-> NilResponse, err |-> NoErr]

NoSvc == [op |-> "none", phase |-> "idle", ctx |-> "live", name |-> "", version |-> "",
          since |-> ZeroTime, opts |-> ZeroOpts, acc |-> <<>>, reqs |-> <<>>, served |-> <<>>,
          result |-> NoResult]

Begin(op, ctx, name, version, opts) ==
    [NoSvc EXCEPT !.op = op, !.phase = "run", !.ctx = ctx, !.name = name,
                  !.version = version, !.opts = opts]

\* A request whose context is nil or done is never answered.
Served(ctx, ans) == ctx # "live" => ans = Fails

\* ListAll(ctx, opts) is entered: nil options become empty options.
ListAllStart(ctx, limit) ==
    /\ svc.op = "none"
    /\ svc' = Begin("ListAll", ctx, "", "", [ZeroOpts EXCEPT !.limit = limit])
    /\ UNCHANGED <<doVars, cfg>>

\* ListByUpdatedSince(ctx, since) is entered.
ListByUpdatedSinceStart(ctx, since) ==
    /\ svc.op = "none"
    /\ svc' = [Begin("ListByUpdatedSince", ctx, "", "",
                     [ZeroOpts EXCEPT !.limit = DefaultLimit,
                                      !.updated_since = FormatRFC3339(since)])
                  EXCEPT !.since = since]
    /\ UNCHANGED <<doVars, cfg>>

\* One turn of the aggregation loop: request a page, give up on an error,
\* append the page's records, stop on an empty nextCursor, else follow it.
FetchPage(ans) ==
    /\ svc.op \in {"ListAll", "ListByUpdatedSince"}
    /\ svc.phase = "run"
    /\ Served(svc.ctx, ans)
    /\ LET r == List(svc.ctx, ans)
           acc == svc.acc \o Unwrap(r.list.servers)
           logged == [svc EXCEPT !.reqs = Append(@, ListURL(svc.opts)),
                                 !.served = Append(@, ans)]
       IN  svc' =
             IF r.err.kind # "nil"
             THEN [logged EXCEPT !.phase = "done",
                                 !.result = [NoResult EXCEPT !.resp = r.resp, !.err = r.err]]
             ELSE IF r.list.nextCursor = ""
             THEN [logged EXCEPT !.phase = "done", !.acc = acc,
                                 !.result = [NoResult EXCEPT !.servers = acc, !.resp = r.resp]]
             ELSE [logged EXCEPT !.acc = acc, !.opts.cursor = r.list.nextCursor]
    /\ rateLimits' = DoOnceRates(svc.ctx, ans, ListPath)
    /\ UNCHANGED <<pc, call, flight, ret, clientMu, rateMu, sent, cfg>>

\* Variant of Search: a nextCursor in the response is followed by a second
\* request.
SearchFollowsCursor(op, ctx, name, opts, ans, result) ==
    /\ svc.op = "none"
    /\ Served(ctx, ans)
    /\ svc' = [Begin(op, ctx, name, "", opts) EXCEPT
                  !.phase = "done",
                  !.reqs = IF List(ctx, ans).list.nextCursor = "" THEN <<ListURL(opts)>>
                           ELSE <<ListURL(opts),
                                  ListURL([opts EXCEPT
                                              !.cursor = List(ctx, ans).list.nextCursor])>>,
                  !.served = IF List(ctx, ans).list.nextCursor = "" THEN <<ans>>
                             ELSE <<ans, ans>>,
                  !.result = result]
    /\ rateLimits' = DoOnceRates(ctx, ans, ListPath)
    /\ UNCHANGED <<pc, call, flight, ret, clientMu, rateMu, sent, cfg>>

\* The single search request of the three by-name operations.
Search(op, ctx, name, opts, ans, result) ==
    /\ svc.op = "none"
    /\ Served(ctx, ans)
    /\ svc' = [Begin(op, ctx, name, "", opts) EXCEPT
                  !.phase = "done", !.reqs = <<ListURL(opts)>>, !.served = <<ans>>,
                  !.result = result]
    /\ rateLimits' = DoOnceRates(ctx, ans, ListPath)
    /\ UNCHANGED <<pc, call, flight, ret, clientMu, rateMu, sent, cfg>>

Failed(r) == [NoResult EXCEPT !.resp = r.resp, !.err = r.err]

\* ListByName(ctx, name)
ListByName(ctx, name, ans) ==
    LET r == List(ctx, ans)
    IN  Search("ListByName", ctx, name,
               [ZeroOpts EXCEPT !.search = name, !.limit = DefaultLimit], ans,
               IF r.err.kind # "nil" THEN Failed(r)
               ELSE [NoResult EXCEPT !.servers = Unwrap(ExactMatches(r.list.servers, name)),
                                     !.resp = r.resp])

\* GetByNameLatest(ctx, name)
GetByNameLatest(ctx, name, ans) ==
    LET r == List(ctx, ans)
        found == ExactMatches(r.list.servers, name)
    IN  Search("GetByNameLatest", ctx, name,
               [ZeroOpts EXCEPT !.search = name, !.version = "latest",
                                !.limit = DefaultLimit], ans,
               IF r.err.kind # "nil" THEN Failed(r)
               ELSE [NoResult EXCEPT
                        !.server = IF found = <<>> THEN NilServer ELSE ServerJSON(found[1]),
                        !.resp = r.resp])

\* GetByNameLatestActiveVersion(ctx, name)
GetByNameLatestActiveVersion(ctx, name, ans) ==
    LET r == List(ctx, ans)
    IN  Search("GetByNameLatestActiveVersion", ctx, name,
               [ZeroOpts EXCEPT !.search = name, !.limit = DefaultLimit], ans,
               IF r.err.kind # "nil" THEN Failed(r)
               ELSE [NoResult EXCEPT
                        !.server = LatestActive(r.list.servers, name, NilServer),
                        !.resp = r.resp])

\* Get(ctx, name, opts): the record of the version endpoint; a decoded nil
\* is no record; an error of Do is returned with its Response.
GetResult(ctx, ans) ==
    LET d == DoOnce(ctx, ans, "value")
    IN  IF d.err.kind # "nil" THEN Failed(d)
        ELSE [NoResult EXCEPT
                 !.server = IF d.out.kind # "decoded" THEN NilServer
                            ELSE IF d.out.value.type = "server"
                            THEN ServerJSON(d.out.value)
                            ELSE [isNil |-> FALSE, name |-> "", version |-> ""],
                 !.resp = d.resp]

\* GetByNameExactVersion(ctx, name, version)
GetByNameExactVersion(ctx, name, version, ans) ==
    /\ svc.op = "none"
    /\ Served(ctx, ans)
    /\ svc' = [Begin("GetByNameExactVersion", ctx, name, version, ZeroOpts) EXCEPT
                  !.phase = "done", !.reqs = <<VersionURL(name, version)>>,
                  !.served = <<ans>>, !.result = GetResult(ctx, ans)]
    /\ rateLimits' = DoOnceRates(ctx, ans, VersionPath)
    /\ UNCHANGED <<pc, call, flight, ret, clientMu, rateMu, sent, cfg>>

\* Get(ctx, name, nil): the latest version of the version endpoint.
Get(ctx, name, ans) ==
    /\ svc.op = "none"
    /\ Served(ctx, ans)
    /\ svc' = [Begin("Get", ctx, name, "latest", ZeroOpts) EXCEPT
                  !.phase = "done", !.reqs = <<VersionURL(name, "latest")>>,
                  !.served = <<ans>>, !.result = GetResult(ctx, ans)]
    /\ rateLimits' = DoOnceRates(ctx, ans, VersionPath)
    /\ UNCHANGED <<pc, call, flight, ret, clientMu, rateMu, sent, cfg>>

\* The caller takes the operation's results.
SvcReturn ==
    /\ svc.phase = "done"
    /\ svc' = NoSvc
    /\ UNCHANGED <<doVars, cfg>>

SvcNext ==
    \/ \E ctx \in CtxKinds, limit \in {0, 50} : ListAllStart(ctx, limit)
    \/ \E ctx \in CtxKinds, since \in {2024, 2025} : ListByUpdatedSinceStart(ctx, since)
    \/ /\ svc.phase = "run"
       /\ \E ans \in ListAnswers(Pages, Len(svc.reqs) + 1 < MaxPages) : FetchPage(ans)
    \/ /\ svc.op = "none"
       /\ \E ctx \in CtxKinds, name \in Names, ans \in ListAnswers(SearchPages, TRUE) :
              \/ ListByName(ctx, name, ans)
              \/ GetByNameLatest(ctx, name, ans)
              \/ GetByNameLatestActiveVersion(ctx, name, ans)
    \/ \E ctx \in CtxKinds, version \in {"1.0.0", "999.0.0"}, ans \in GetAnswers :
           GetByNameExactVersion(ctx, "a", version, ans)
    \/ \E ctx \in CtxKinds, ans \in GetAnswers : Get(ctx, "a", ans)
    \/ SvcReturn

Init ==
    /\ pc = [p \in Callers |-> "idle"]
    /\ call = [p \in Callers |-> NoCall]
    /\ flight = [p \in Callers |-> NoFlight]
    /\ ret = [p \in Callers |-> NoRet]
    /\ clientMu = NoCaller
    /\ rateMu = NoCaller
    /\ rateLimits = [q \in Paths |-> NoEntry]
    /\ sent = 0
    /\ svc = NoSvc
    /\ cfg = NoCfg

Next ==
    \E p \in Callers :
        \/ \E ctx \in CtxKinds, path \in Paths, v \in VKinds : DoStart(p, ctx, path, v)
        \/ DoLock(p)
        \/ \E fails \in BOOLEAN, status \in StatusCodes, header \in HeaderSets :
               DoSend(p, fails, status, header)
        \/ DoUnlock(p)
        \/ DoErrCheck(p)
        \/ DoRateLock(p)
        \/ DoRateStore(p)
        \/ DoRateUnlock(p)
        \/ \E body \in Bodies : DoCheck(p, body)
        \/ Cancel(p)
        \/ DoReturn(p)

Spec == Init /\ [][Next]_vars

SpecServers == Init /\ [][SvcNext]_vars

\* The aggregate fetches alone. The loop runs in the caller's goroutine and
\* every request it sends is answered or fails, so a turn of the loop that
\* can be taken is taken.
NextListAll ==
    \/ \E ctx \in CtxKinds, limit \in {0, 50} : ListAllStart(ctx, limit)
    \/ \E ctx \in CtxKinds, since \in {2024, 2025} : ListByUpdatedSinceStart(ctx, since)
    \/ /\ svc.phase = "run"
       /\ \E ans \in ListAnswers(Pages, Len(svc.reqs) + 1 < MaxPages) : FetchPage(ans)
    \/ SvcReturn

Turn ==
    /\ svc.phase = "run"
    /\ \E ans \in ListAnswers(Pages, Len(svc.reqs) + 1 < MaxPages) : FetchPage(ans)

SpecListAll == Init /\ [][NextListAll]_vars /\ WF_vars(Turn)

----------------------------------------------------------------------------
(* Concurrent callers of Do on one client                                  *)

Goroutines == {"g1", "g2"}

InitConc ==
    /\ pc = [p \in Goroutines |-> "idle"]
    /\ call = [p \in Goroutines |-> NoCall]
    /\ flight = [p \in Goroutines |-> NoFlight]
    /\ ret = [p \in Goroutines |-> NoRet]
    /\ clientMu = NoCaller
    /\ rateMu = NoCaller
    /\ rateLimits = [q \in Paths |-> NoEntry]
    /\ sent = 0
    /\ svc = NoSvc
    /\ cfg = NoCfg

\* The headers two concurrent responses may carry, and their body.
ConcHeaders ==
    { [limit |-> "", remaining |-> "", reset |-> ""],
      [limit |-> "100", remaining |-> "0", reset |-> "2030-01-01T00:00:00Z"] }

NextConc ==
    \E p \in Goroutines :
        \/ \E ctx \in {"nil", "live"}, path \in Paths : DoStart(p, ctx, path, "nil")
        \/ DoLock(p)
        \/ \E fails \in BOOLEAN, status \in {200, 429}, header \in ConcHeaders :
               DoSend(p, fails, status, header)
        \/ DoUnlock(p)
        \/ DoErrCheck(p)
        \/ DoRateLock(p)
        \/ DoRateStore(p)
        \/ DoRateUnlock(p)
        \/ DoCheck(p, EmptyBody)
        \/ Cancel(p)
        \/ DoReturn(p)

SpecConc == InitConc /\ [][NextConc]_vars

\* The send of caller p completes, with an error or a response.
SendCompletes(p) ==
    \E fails \in BOOLEAN : DoSend(p, fails, 200, NoFlight.header)

\* Concurrent calls of Do for one path, whatever the responses carry.
NextProgress ==
    \E p \in Goroutines :
        \/ \E ctx \in {"nil", "live"} : DoStart(p, ctx, ListPath, "nil")
        \/ DoLock(p)
        \/ SendCompletes(p)
        \/ DoUnlock(p)
        \/ DoErrCheck(p)
        \/ DoRateLock(p)
        \/ DoRateStore(p)
        \/ DoRateUnlock(p)
        \/ DoCheck(p, EmptyBody)
        \/ Cancel(p)
        \/ DoReturn(p)

\* Fair scheduling of the goroutines: a step of Do that stays possible is
\* taken, every send completes, and a goroutine waiting in Lock() is not
\* overtaken for ever (sync.Mutex hands the lock to a starving waiter).
Fairness ==
    \A p \in Goroutines :
        /\ SF_vars(DoLock(p))
        /\ WF_vars(SendCompletes(p))
        /\ WF_vars(DoUnlock(p))
        /\ WF_vars(DoErrCheck(p))
        /\ SF_vars(DoRateLock(p))
        /\ WF_vars(DoRateStore(p))
        /\ WF_vars(DoRateUnlock(p))
        /\ WF_vars(DoCheck(p, EmptyBody))

SpecConcFair == InitConc /\ [][NextProgress]_vars /\ Fairness

----------------------------------------------------------------------------
(* The construction of a client and of its requests                        *)

RequestNext ==
    \/ /\ ~cfg.made
       /\ \E opts \in SeqsUpTo(BaseURLs, MaxOpts) : NewClientCall(opts)
    \/ \E s \in BaseURLs : SetBaseURL(s)
    \/ \E s \in OptionPaths, opts \in OptionValues : AddOptions(s, opts)
    \/ \E urlStr \in {cfg.added.out, <<"v0.1", "/", "servers">>, <<"/", "v0.1", "/", "servers">>,
                        <<":", "/", "/", "invalid">>},
          body \in {"nil", "json", "unencodable"} : NewRequestCall(urlStr, body)
    \/ Discard

SpecRequests == Init /\ [][RequestNext]_vars

----------------------------------------------------------------------------
(* Properties of the pagination aggregation                                *)

Aggregates == {"ListAll", "ListByUpdatedSince"}

\* A request that does not end in a decoded page: the transport failed, the
\* status is not 2xx, or the body is not JSON.
IsFailure(ans) ==
    \/ ans.fails
    \/ ans.status < 200 \/ ans.status > 299
    \/ ans.body.kind = "invalid"

\* The records and cursor a successful answer carries (an empty body is an
\* empty page with no cursor).
PageRecords(ans) == IF ans.body.kind = "json" THEN ans.body.value.servers ELSE <<>>

PageCursor(ans) == IF ans.body.kind = "json" THEN ans.body.value.nextCursor ELSE ""

NameVersion(sr) == <<sr.name, sr.version>>

RECURSIVE Concatenation(_)
Concatenation(answers) ==
    IF answers = <<>> THEN <<>>
    ELSE [i \in 1..Len(PageRecords(Head(answers))) |->
              NameVersion(PageRecords(Head(answers))[i])]
             \o Concatenation(Tail(answers))

Returned == [i \in 1..Len(svc.result.servers) |-> NameVersion(svc.result.servers[i])]

\* C1: for every chain of pages the registry serves, ListAll sends one
\* request per page, goes on while nextCursor is non-empty, stops at the
\* first empty nextCursor, and returns the per-page record lists
\* concatenated in page order and within-page order.
C1_ListAllConcatenates ==
    svc.op = "ListAll" =>
        /\ Len(svc.reqs) = Len(svc.served)
        /\ \A i \in 1..(Len(svc.served) - 1) :
               ~IsFailure(svc.served[i]) /\ PageCursor(svc.served[i]) # ""
        /\ (svc.phase = "run" /\ svc.served # <<>>) =>
               /\ ~IsFailure(svc.served[Len(svc.served)])
               /\ PageCursor(svc.served[Len(svc.served)]) # ""
        /\ (svc.phase = "done" /\ ~IsFailure(svc.served[Len(svc.served)])) =>
               /\ PageCursor(svc.served[Len(svc.served)]) = ""
               /\ svc.result.err = NoErr
               /\ Returned = Concatenation(svc.served)

\* C1 witness: ListAll has returned the records of three pages, the first
\* two of them non-empty.
C1_Witness ==
    /\ svc.op = "ListAll" /\ svc.phase = "done"
    /\ Len(svc.served) = 3
    /\ ~IsFailure(svc.served[3])
    /\ Len(PageRecords(svc.served[1])) = 2
    /\ Len(PageRecords(svc.served[2])) = 2
    /\ PageRecords(svc.served[1]) # PageRecords(svc.served[2])
    /\ Len(svc.result.servers) >= 4

\* The error Do reports for an answer that is a failure.
IsErrorOf(err, ans, ctx) ==
    IF ans.fails THEN err.kind \in {"transport", "ctx", "config"}
    ELSE IF ans.status = 429 THEN err.kind = "ratelimit" /\ err.status = 429
    ELSE IF ans.status < 200 \/ ans.status > 299
    THEN err.kind = "api" /\ err.status = ans.status
    ELSE err.kind = "syntax"

\* C2: when a page request of ListAll or ListByUpdatedSince fails, at the
\* first page or a later one, the operation ends there with that error and
\* no records: no request follows the failed one.
C2_AllOrNothing ==
    svc.op \in Aggregates =>
        \A i \in 1..Len(svc.served) :
            IsFailure(svc.served[i]) =>
                /\ i = Len(svc.served)
                /\ Len(svc.reqs) = i
                /\ svc.phase = "done"
                /\ IsErrorOf(svc.result.err, svc.served[i], svc.ctx)
                /\ svc.result.servers = <<>>

\* C2 witness: a later page fails after records were accumulated.
C2_Witness ==
    /\ svc.op = "ListByUpdatedSince" /\ svc.phase = "done"
    /\ Len(svc.served) = 3
    /\ svc.served[3].status = 500
    /\ Len(svc.acc) >= 2
    /\ svc.result.servers = <<>>

----------------------------------------------------------------------------
(* Properties of the resolution by name                                    *)

\* The answer of the one request the operation made, when it is a page.
TheAnswer == svc.served[1]

Resolved(op) ==
    svc.op = op /\ svc.phase = "done" /\ ~IsFailure(TheAnswer)

NamedExactly(sr) == sr.name = svc.name

\* C3: ListByName(name) returns exactly the records of the response whose
\* name equals name, in the order received; a name that only contains or
\* extends name is left out, and no match is an empty result, not an error.
C3_ListByNameExact ==
    Resolved("ListByName") =>
        /\ svc.result.err = NoErr
        /\ LET matches == SelectSeq(PageRecords(TheAnswer), NamedExactly)
           IN  Returned = [i \in 1..Len(matches) |-> NameVersion(matches[i])]
        /\ \A i \in 1..Len(svc.result.servers) : svc.result.servers[i].name = svc.name

\* C3 witness: the response mixes an exact match and a near match, and only
\* the exact match is returned.
C3_Witness ==
    /\ Resolved("ListByName")
    /\ svc.name = "exact-name"
    /\ Len(PageRecords(TheAnswer)) = 2
    /\ PageRecords(TheAnswer)[1].name = "exact-name-plus"
    /\ PageRecords(TheAnswer)[2].name = "exact-name"
    /\ Len(svc.result.servers) = 1

\* A record of the response that survives the filters of
\* GetByNameLatestActiveVersion.
Survives(sr) ==
    /\ sr.name = svc.name
    /\ sr.status = "active"
    /\ sr.version \in {"1.5.0", "1.5.0+b1", "2.0.0-rc1", "2.0.0"}

\* Semantic-version precedence of the versions the registry serves.
Rank(ver) ==
    CASE ver \in {"1.5.0", "1.5.0+b1"} -> 1
      [] ver = "2.0.0-rc1" -> 2
      [] ver = "2.0.0" -> 3
      [] OTHER -> 0

\* C4: GetByNameLatestActiveVersion(name) returns a record of the response
\* that has the exact name, an active status and a valid semantic version,
\* no other such record has a greater version, and it returns no record
\* and no error exactly when no record survives the filters.
C4_LatestActive ==
    Resolved("GetByNameLatestActiveVersion") =>
        LET recs == PageRecords(TheAnswer)
            candidates == {i \in 1..Len(recs) : Survives(recs[i])}
        IN  /\ svc.result.err = NoErr
            /\ svc.result.server.isNil <=> candidates = {}
            /\ ~svc.result.server.isNil =>
                   /\ \E i \in candidates :
                          /\ svc.result.server.name = recs[i].name
                          /\ svc.result.server.version = recs[i].version
                   /\ \A j \in candidates :
                          Rank(svc.result.server.version) >= Rank(recs[j].version)

\* C4 witness: a deprecated 2.0.0 comes before an active 1.5.0, which is
\* the record returned.
C4_Witness ==
    /\ Resolved("GetByNameLatestActiveVersion")
    /\ svc.name = "exact-name"
    /\ Len(PageRecords(TheAnswer)) = 2
    /\ PageRecords(TheAnswer)[1].version = "2.0.0"
    /\ PageRecords(TheAnswer)[1].status = "deprecated"
    /\ PageRecords(TheAnswer)[2].version = "1.5.0"
    /\ PageRecords(TheAnswer)[2].status = "active"
    /\ svc.result.server.version = "1.5.0"

ExactVersionDone == svc.op = "GetByNameExactVersion" /\ svc.phase = "done"

\* C5: GetByNameExactVersion returns no record and no error when the
\* registry answers 404, and an error for any other failure status.
C5_NotFoundIsNoRecord ==
    (ExactVersionDone /\ ~TheAnswer.fails) =>
        /\ TheAnswer.status = 404 =>
               svc.result.server.isNil /\ svc.result.err = NoErr
        /\ TheAnswer.status \in {429, 500} => svc.result.err # NoErr

Params(req) == {req.query[i] : i \in 1..Len(req.query)}

\* C7: GetByNameLatest(name) sends one request with search=name,
\* version=latest and limit=100, and returns the first record whose name
\* equals name, or no record and no error when there is none.
C7_LatestFirstExact ==
    (svc.op = "GetByNameLatest" /\ svc.phase = "done") =>
        /\ Len(svc.reqs) = 1
        /\ svc.reqs[1].path = ListPath
        /\ Params(svc.reqs[1]) =
               {<<"search", svc.name>>, <<"version", "latest">>, <<"limit", "100">>}
        /\ Len(svc.reqs[1].query) = 3
        /\ ~IsFailure(TheAnswer) =>
               LET recs == PageRecords(TheAnswer)
                   hits == {i \in 1..Len(recs) : recs[i].name = svc.name}
               IN  /\ svc.result.err = NoErr
                   /\ hits = {} => svc.result.server.isNil
                   /\ hits # {} =>
                          \E i \in hits :
                              /\ \A j \in hits : i <= j
                              /\ ~svc.result.server.isNil
                              /\ svc.result.server.name = recs[i].name
                              /\ svc.result.server.version = recs[i].version

\* C7 witness: a near match comes first and the exact match after it is
\* the record returned.
C7_Witness ==
    /\ Resolved("GetByNameLatest")
    /\ svc.name = "exact-name"
    /\ Len(PageRecords(TheAnswer)) = 2
    /\ PageRecords(TheAnswer)[1].name = "exact-name-plus"
    /\ PageRecords(TheAnswer)[2].version = "1.5.0"
    /\ svc.result.server.name = "exact-name"
    /\ svc.result.server.version = "1.5.0"

----------------------------------------------------------------------------
(* Properties of Client.Do                                                 *)

\* Do has returned to caller p after an HTTP response was received.
Answered(p) == pc[p] = "done" /\ call[p].ctx # "nil" /\ ~flight[p].err

\* The rate the three headers of a response spell out.
HeaderRate(h) ==
    CASE h.limit = "100" -> [Limit |-> 100, Remaining |-> 0, Reset |-> 2030]
      [] h.limit = "abc" -> [Limit |-> 0, Remaining |-> 59, Reset |-> 0]
      [] h.limit = "7 per hour" -> [Limit |-> 7, Remaining |-> 0, Reset |-> 2031]
      [] OTHER -> [Limit |-> 0, Remaining |-> 0, Reset |-> 0]

\* C8: a response is classified by its status code alone: 2xx is no API
\* error, 429 is a RateLimitError carrying the Rate of that response's
\* headers, any other status is an ErrorResponse carrying the status code
\* and the message of the error body.
C8_StatusClassification ==
    \A p \in Callers :
        Answered(p) =>
            LET st == flight[p].status
                e == ret[p].err
            IN  /\ (200 <= st /\ st <= 299) => e.kind \in {"nil", "syntax"}
                /\ (200 <= st /\ st <= 299 /\ ret[p].body.kind # "invalid") => e = NoErr
                /\ st = 429 =>
                       /\ e.kind = "ratelimit"
                       /\ e.rate = HeaderRate(flight[p].header)
                       /\ e.status = 429
                /\ (st # 429 /\ (st < 200 \/ st > 299)) =>
                       /\ e.kind = "api"
                       /\ e.status = st
                       /\ e.message = (IF ret[p].body.kind = "json"
                                       THEN ret[p].body.message ELSE "")

\* C8 witness: a 429 with limit=100, remaining=0 and a reset time has been
\* returned as a RateLimitError.
C8_Witness ==
    \E p \in Callers :
        /\ Answered(p)
        /\ flight[p].status = 429
        /\ flight[p].header.limit = "100"
        /\ ret[p].err.rate.Reset = 2030

\* C9: when the transport send failed, Do returns ctx.Err() if the context
\* is done at that moment and the transport's own error if it is not, and
\* no Response either way.
C9_CancellationPreferred ==
    \A p \in Callers :
        (pc[p] = "done" /\ flight[p].err) =>
            /\ call[p].ctx = "done" => ret[p].err.kind = "ctx"
            /\ call[p].ctx = "live" => ret[p].err.kind = "transport"
            /\ ret[p].resp.isNil

\* C9 witness: the send failed under a done context and Do returned the
\* context's error.
C9_Witness ==
    \E p \in Callers :
        pc[p] = "done" /\ flight[p].err /\ call[p].ctx = "done"
            /\ ret[p].err.kind = "ctx"

\* C10: Do entered with a nil context returns the error "context must be
\* non-nil" in that very step: nothing is handed to the transport, no mutex
\* changes hands, and the call never gets to the send.
C10_NilContextRejected ==
    /\ [](\A p \in Callers :
              call[p].ctx = "nil" =>
                  /\ pc[p] = "done"
                  /\ ret[p].err.kind = "config"
                  /\ ret[p].err.message = "context must be non-nil"
                  /\ ret[p].resp.isNil
                  /\ clientMu # p /\ rateMu # p)
    /\ [][\A p \in Callers :
              (pc[p] = "idle" /\ call'[p].ctx = "nil") =>
                  /\ sent' = sent
                  /\ clientMu' = clientMu
                  /\ rateMu' = rateMu
                  /\ rateLimits' = rateLimits]_vars

\* C10 witness: a call with a nil context has returned.
C10_Witness ==
    \E p \in Callers :
        pc[p] = "done" /\ call[p].ctx = "nil" /\ ret[p].err.kind = "config"

\* C11: every response Do receives, whatever its status and whether or not
\* the decoding of its body fails afterwards, sets the rate cache entry of
\* the request path to the Rate its headers spell out (zero for an absent
\* or unparsable header, nothing kept from the entry before) before Do
\* returns; the store touches no other path.
C11_RateCacheUnconditional ==
    /\ [](\A p \in Callers :
              (pc[p] \in {"rateUnlock", "check", "done"} /\ call[p].ctx # "nil"
                   /\ ~flight[p].err) =>
                  rateLimits[call[p].path] = HeaderRate(flight[p].header))
    /\ [][\A p \in Callers :
              (pc[p] = "rateStore" /\ pc'[p] = "rateUnlock") =>
                  /\ rateLimits'[call[p].path] = HeaderRate(flight[p].header)
                  /\ \A q \in Paths \ {call[p].path} : rateLimits'[q] = rateLimits[q]]_vars

\* C11 witness: a second request got a 200 whose body is not JSON and whose
\* headers are limit=abc, remaining=59, reset=tomorrow; Do returned the
\* syntax error and the cache holds 0, 59 and the zero time for the path.
C11_Witness ==
    \E p \in Callers :
        /\ Answered(p)
        /\ sent = 2
        /\ flight[p].status = 200
        /\ flight[p].header.limit = "abc"
        /\ ret[p].err.kind = "syntax"
        /\ rateLimits[call[p].path] = [Limit |-> 0, Remaining |-> 59, Reset |-> ZeroTime]

----------------------------------------------------------------------------
(* Properties of concurrent Do calls                                       *)

\* Caller p is inside c.client.Do(req): its request is in flight.
InFlight(p) == pc[p] = "send"

\* Caller p is blocked in a Lock() of a mutex another caller holds.
BlockedOnClientMu(p) == pc[p] = "lock" /\ clientMu # NoCaller

\* C12: no caller holds an internal mutex while its request is in flight,
\* so no caller waits for a mutex because of another caller's request.
C12_NoLockAcrossIO ==
    \A p \in Goroutines :
        InFlight(p) =>
            /\ clientMu # p
            /\ rateMu # p
            /\ \A q \in Goroutines \ {p} : ~BlockedOnClientMu(q)

\* C13: the transport send happens under c.clientMu: at most one caller is
\* inside the send at any time, and that caller holds the mutex.
C13_SendSerialized ==
    /\ Cardinality({p \in Goroutines : InFlight(p)}) <= 1
    /\ \A p \in Goroutines : InFlight(p) => clientMu = p

\* C13 witness: one caller is inside the send while the other has reached
\* the Lock() and waits.
C13_Witness ==
    /\ InFlight("g1")
    /\ pc["g2"] = "lock"
    /\ clientMu = "g1"

----------------------------------------------------------------------------
(* Properties of the client's construction and of its requests             *)

\* s is written scheme://...
Hierarchical(s) ==
    Len(s) >= 4 /\ s[1] \notin Separators /\ SubSeq(s, 2, 4) = <<":", "/", "/">>

\* The path written in a hierarchical URL: from the first '/' after the
\* authority up to the query.
WrittenPath(s) ==
    LET body == SubSeq(s, 5, Len(s))
        q == Index(body, "?")
        noQuery == IF q = 0 THEN body ELSE SubSeq(body, 1, q - 1)
        i == Index(noQuery, "/")
    IN  IF i = 0 THEN <<>> ELSE SubSeq(noQuery, i, Len(noQuery))

\* NewClient succeeded and its base URL is the one of its last option.
Configured == cfg.made /\ ~cfg.client.isNil /\ cfg.count > 0 /\ ~cfg.reassigned

C15_RejectionClasses ==
    (cfg.made /\ cfg.err # NoError) =>
        /\ cfg.client.isNil
        /\ cfg.last = <<>> => cfg.err.msg = "base URL cannot be empty"
        /\ (cfg.last # <<>> /\ ~Hierarchical(cfg.last)) => cfg.err.msg = "invalid base URL"
        /\ (Hierarchical(cfg.last) /\ cfg.last[1] \notin {"http", "https"}) =>
               cfg.err.msg = "base URL must use HTTP or HTTPS scheme"

\* C16: a client NewClient returned has a base URL path ending with the
\* separator as long as BaseURL is not reassigned; NewRequest fails with
\* "BaseURL must have a trailing slash", building no request, exactly when
\* the path lacks the separator, which takes a reassignment.
C16_TrailingSeparatorInvariant ==
    /\ (cfg.made /\ ~cfg.client.isNil /\ ~cfg.reassigned) =>
           HasSuffix(cfg.client.BaseURL.path, <<"/">>)
    /\ cfg.built =>
           /\ cfg.reqErr.msg = "BaseURL must have a trailing slash"
                  <=> ~HasSuffix(cfg.client.BaseURL.path, <<"/">>)
           /\ cfg.reqErr.msg = "BaseURL must have a trailing slash" =>
                  cfg.reassigned /\ cfg.req.isNil
           /\ (~cfg.reassigned /\ cfg.body # "unencodable" /\ ~HasPrefix(cfg.urlStr, <<":">>)) =>
                  ~cfg.req.isNil /\ cfg.reqErr = NoError

\* C16 witness: BaseURL was reassigned to https://example.com and the next
\* NewRequest failed on the missing separator.
C16_Witness ==
    /\ cfg.built /\ cfg.reassigned
    /\ cfg.count = 2
    /\ String(cfg.client.BaseURL) = <<"https", ":", "/", "/", "example.com">>
    /\ cfg.reqErr.msg = "BaseURL must have a trailing slash"
    /\ cfg.req.isNil

\* The non-zero fields of an options value, as key and encoded value.
NonZeroFields(opts) ==
    IF opts = NilOpts THEN {}
    ELSE {kv \in {<<"cursor", opts.cursor>>, <<"search", opts.search>>,
                  <<"updated_since", opts.updated_since>>, <<"version", opts.version>>,
                  <<"limit", IF opts.limit = 0 THEN ""
                             ELSE IF opts.limit = 100 THEN "100" ELSE "50">>} :
              kv[2] # ""}

\* C17: addOptions(path, opts) returns path followed by the non-zero
\* fields of opts as key=value, and by nothing else: what path holds,
\* its query included, stays in front, '?' opens the query when path has
\* none and '&' continues it when it has one; nil or all-zero options
\* return path as it is.
C17_AddOptionsAppends ==
    (cfg.added.called /\ cfg.added.err = NoError) =>
        LET path == cfg.added.s
            out == cfg.added.out
            fields == NonZeroFields(cfg.added.opts)
            tail == SubSeq(out, Len(path) + 1, Len(out))
        IN  /\ HasPrefix(out, path)
            /\ fields = {} => out = path
            /\ fields # {} =>
                   /\ tail[1] = (IF Index(path, "?") # 0 THEN "&" ELSE "?")
                   /\ Len(tail) = 4 * Cardinality(fields)
                   /\ \A kv \in fields :
                          \E i \in 1..Len(tail) :
                              /\ i % 4 = 2
                              /\ SubSeq(tail, i, i + 2) = <<kv[1], "=", kv[2]>>
                   /\ \A i \in 1..Len(tail) : (i % 4 = 1 /\ i > 1) => tail[i] = "&"

\* C17 witness: limit=100 was added to v0.1/servers?existing=param.
C17_Witness ==
    /\ cfg.added.called
    /\ cfg.added.out =
           <<"v0.1", "/", "servers", "?", "existing", "=", "param", "&", "limit", "=", "100">>

----------------------------------------------------------------------------
(* Further properties of the ServersService                                *)

\* The RFC3339 text of the timestamps the callers pass.
SinceText(t) == IF t = 2024 THEN "2024-01-01T00:00:00Z" ELSE "2025-07-01T08:30:00Z"

\* C18: every page request of ListByUpdatedSince(since), the first and
\* each one that follows a cursor, carries updated_since=<since in
\* RFC3339> and limit=100 (and the cursor of the page before, from the
\* second on); every record of every page is returned in order, whatever
\* its updatedAt.
C18_UpdatedSinceEveryPage ==
    svc.op = "ListByUpdatedSince" =>
        /\ \A i \in 1..Len(svc.reqs) :
               /\ svc.reqs[i].path = ListPath
               /\ Params(svc.reqs[i]) =
                      {<<"updated_since", SinceText(svc.since)>>, <<"limit", "100">>}
                          \cup (IF i = 1 THEN {}
                                ELSE {<<"cursor", PageCursor(svc.served[i - 1])>>})
               /\ Len(svc.reqs[i].query) = (IF i = 1 THEN 2 ELSE 3)
        /\ (svc.phase = "done" /\ ~IsFailure(svc.served[Len(svc.served)])) =>
               /\ svc.result.err = NoErr
               /\ Returned = Concatenation(svc.served)

\* C18 witness: three pages were fetched for since = 2025 and the records
\* returned, all of them updated in 2024, are those of the pages.
C18_Witness ==
    /\ svc.op = "ListByUpdatedSince" /\ svc.phase = "done"
    /\ svc.since = 2025
    /\ Len(svc.reqs) = 3
    /\ ~IsFailure(svc.served[3])
    /\ Len(svc.result.servers) >= 3
    /\ \A i \in 1..3 : \A k \in 1..Len(PageRecords(svc.served[i])) :
           PageRecords(svc.served[i])[k].updatedAt < svc.since

ByNameOps == {"ListByName", "GetByNameLatest", "GetByNameLatestActiveVersion"}

\* C19: ListByName, GetByNameLatest and GetByNameLatestActiveVersion make
\* one request per call and return; a nextCursor in the response is not
\* followed and the request carries limit=100 and no cursor.
C19_OneRequestByName ==
    svc.op \in ByNameOps =>
        /\ Len(svc.reqs) = 1
        /\ Len(svc.served) = 1
        /\ svc.phase = "done"
        /\ <<"limit", "100">> \in Params(svc.reqs[1])
        /\ \A kv \in Params(svc.reqs[1]) : kv[1] # "cursor"

\* C19 witness: the response announced a further page and the operation
\* returned the match of the first page.
C19_Witness ==
    /\ Resolved("GetByNameLatestActiveVersion")
    /\ PageCursor(TheAnswer) = "page2"
    /\ Len(PageRecords(TheAnswer)) = 2
    /\ ~svc.result.server.isNil

\* C20: for every response whose status is not 2xx, Do returns an error
\* together with a Response that carries the status code, and nothing of
\* the body reaches v.
C20_NonSuccessReturnsBoth ==
    \A p \in Callers :
        (Answered(p) /\ (flight[p].status < 200 \/ flight[p].status > 299)) =>
            /\ ret[p].err # NoErr
            /\ ret[p].err.kind \in {"api", "ratelimit"}
            /\ ~ret[p].resp.isNil
            /\ ret[p].resp.status = flight[p].status
            /\ ret[p].out = ZeroOut

\* C20 witness: a 404 whose body is a JSON object was answered to a call
\* that decodes into a value.
C20_Witness ==
    \E p \in Callers :
        /\ Answered(p)
        /\ flight[p].status = 404
        /\ call[p].v = "value"
        /\ ret[p].body.kind = "json"
        /\ ret[p].body.value.type = "server"
        /\ ret[p].resp.status = 404

\* C21: a 2xx response whose body is present but is not valid JSON, decoded
\* into a value that is not an io.Writer, makes Do return the decoder's
\* JSON syntax error together with the Response: never success, never an
\* ErrorResponse and never a RateLimitError. Nothing reaches the value.
C21_InvalidJSONIsSyntaxError ==
    \A p \in Callers :
        (/\ Answered(p)
         /\ 200 <= flight[p].status /\ flight[p].status <= 299
         /\ ret[p].body.kind = "invalid"
         /\ call[p].v = "value") =>
            /\ ret[p].err = SyntaxErr
            /\ ret[p].err.kind \notin {"nil", "api", "ratelimit"}
            /\ ~ret[p].resp.isNil
            /\ ret[p].resp.status = flight[p].status
            /\ ret[p].out = ZeroOut

\* C21 witness: a 200 whose body is malformed JSON was answered to a call
\* that decodes into a value, and the call returned the syntax error.
C21_Witness ==
    \E p \in Callers :
        /\ Answered(p)
        /\ flight[p].status = 200
        /\ ret[p].body.kind = "invalid"
        /\ call[p].v = "value"
        /\ ret[p].err.kind = "syntax"

----------------------------------------------------------------------------
(* Empty and null bodies                                                   *)

\* Get or GetByNameExactVersion has returned.
GetOps == {"Get", "GetByNameExactVersion"}

\* C22: a 2xx response whose body is empty or is the JSON value null is no
\* error: Do returns no error and leaves the output at its zero value, and
\* Get and GetByNameExactVersion return no record and no error.
C22_EmptyOrNullIsNoRecord ==
    (/\ svc.phase = "done"
     /\ svc.op \in GetOps
     /\ svc.ctx = "live"
     /\ ~TheAnswer.fails
     /\ 200 <= TheAnswer.status /\ TheAnswer.status <= 299
     /\ TheAnswer.body.kind \in {"empty", "null"}) =>
        /\ DoOnce(svc.ctx, TheAnswer, "value").err = NoErr
        /\ DoOnce(svc.ctx, TheAnswer, "value").out = ZeroOut
        /\ svc.result.err = NoErr
        /\ svc.result.server = NilServer
        /\ svc.result.servers = <<>>
        /\ ~svc.result.resp.isNil

\* C22 witness: Get was answered 200 with an empty body and returned no
\* record and no error.
C22_Witness ==
    /\ svc.phase = "done"
    /\ svc.op = "Get"
    /\ svc.ctx = "live"
    /\ TheAnswer = Answer(200, EmptyBody)
    /\ svc.result.server.isNil
    /\ svc.result.err = NoErr

----------------------------------------------------------------------------
(* Page requests of the aggregate fetches                                  *)

\* ListAll was called with nil options, or with options that set nothing.
NilOptions == svc.op = "ListAll" /\ svc.opts.limit = 0

\* C23: the first request of ListAll with nil options carries no query
\* parameter at all; every later request carries exactly one parameter,
\* cursor, whose value is the nextCursor of the response just before it.
C23_CursorChain ==
    NilOptions =>
        \A i \in 1..Len(svc.reqs) :
            /\ svc.reqs[i].path = ListPath
            /\ svc.reqs[i].query =
                   (IF i = 1 THEN <<>>
                    ELSE <<(<<"cursor", PageCursor(svc.served[i - 1])>>)>>)
            /\ i > 1 => PageCursor(svc.served[i - 1]) # ""

\* C23 witness: three requests were made with nil options, following the
\* cursors page3 and then page2, and the third page ended the listing.
C23_Witness ==
    /\ NilOptions
    /\ svc.phase = "done"
    /\ Len(svc.reqs) = 3
    /\ PageCursor(svc.served[1]) = "page3"
    /\ PageCursor(svc.served[2]) = "page2"
    /\ svc.reqs[3].query = <<(<<"cursor", "page2">>)>>
    /\ svc.result.err = NoErr

\* The value of the limit parameter of a request, "" when it has none.
LimitOf(req) ==
    IF \E i \in 1..Len(req.query) : req.query[i][1] = "limit"
    THEN req.query[CHOOSE i \in 1..Len(req.query) : req.query[i][1] = "limit"][2]
    ELSE ""

\* C24 as stated: when the options give no page size (nil options, or a
\* limit of 0), every page request of ListAll, and likewise of
\* ListByUpdatedSince, is sent with limit=100.
C24_DefaultLimitEveryPage ==
    (svc.op = "ListByUpdatedSince" \/ NilOptions) =>
        \A i \in 1..Len(svc.reqs) : LimitOf(svc.reqs[i]) = "100"

\* C24 amended: every page request of ListByUpdatedSince is sent with
\* limit=100; ListAll sends the page size of its options on every page and,
\* when they give none, no limit parameter on any page.
C24_LimitAsGiven ==
    \A i \in 1..Len(svc.reqs) :
        /\ svc.op = "ListByUpdatedSince" => LimitOf(svc.reqs[i]) = "100"
        /\ NilOptions => LimitOf(svc.reqs[i]) = ""
        /\ (svc.op = "ListAll" /\ svc.opts.limit = 50) => LimitOf(svc.reqs[i]) = "50"

\* C24 witness: ListAll with nil options has requested a second page, and
\* neither request carries a limit.
C24_Witness ==
    /\ NilOptions
    /\ Len(svc.reqs) = 2
    /\ LimitOf(svc.reqs[1]) = ""
    /\ LimitOf(svc.reqs[2]) = ""
    /\ svc.reqs[2].query # <<>>

----------------------------------------------------------------------------
(* Ties of GetByNameLatestActiveVersion                                    *)

\* C25: when several surviving records share the greatest version (the
\* same version listed twice, or versions that differ only in build
\* metadata), GetByNameLatestActiveVersion returns the one that comes first
\* in the server's order, and no error.
C25_FirstWinsTies ==
    Resolved("GetByNameLatestActiveVersion") =>
        LET recs == PageRecords(TheAnswer)
            candidates == {i \in 1..Len(recs) : Survives(recs[i])}
            greatest == {i \in candidates :
                            \A j \in candidates :
                                Rank(recs[i].version) >= Rank(recs[j].version)}
        IN  greatest # {} =>
                \E i \in greatest :
                    /\ \A j \in greatest : i <= j
                    /\ svc.result.err = NoErr
                    /\ svc.result.server = ServerJSON(recs[i])

\* C25 witness: 1.5.0+b1 comes before 1.5.0, both active, and 1.5.0+b1 is
\* the record returned.
C25_Witness ==
    /\ Resolved("GetByNameLatestActiveVersion")
    /\ svc.name = "exact-name"
    /\ Len(PageRecords(TheAnswer)) = 2
    /\ PageRecords(TheAnswer)[1].version = "1.5.0+b1"
    /\ PageRecords(TheAnswer)[1].status = "active"
    /\ PageRecords(TheAnswer)[2].version = "1.5.0"
    /\ PageRecords(TheAnswer)[2].status = "active"
    /\ svc.result.server.version = "1.5.0+b1"

----------------------------------------------------------------------------
(* Base URL with a query                                                   *)

\* A base URL that has a query and whose text does not end with '/'.
QueryBaseURL ==
    <<"https", ":", "/", "/", "example.com", "/", "api", "/", "v1", "?", "param", "=",
      "value">>

\* C26: for the base URL https://example.com/api/v1?param=value WithBaseURL
\* succeeds and the configured base URL renders as the input text with '/'
\* appended at its very end, https://example.com/api/v1?param=value/.
C26_SeparatorAfterQuery ==
    (cfg.made /\ cfg.count > 0 /\ ~cfg.reassigned /\ cfg.last = QueryBaseURL) =>
        /\ cfg.err = NoError
        /\ ~cfg.client.isNil
        /\ String(cfg.client.BaseURL) = QueryBaseURL \o <<"/">>

----------------------------------------------------------------------------
(* Termination of ListAll                                                  *)

\* An answer that ends the listing: a failure, or a page with no nextCursor.
EndsListing(ans) == IsFailure(ans) \/ PageCursor(ans) = ""

\* ListAll has made one request per answer, none of the answers before the
\* last ends the listing, and it has returned exactly when the last does.
StopsAtFirstEnd ==
    svc.op = "ListAll" =>
        /\ Len(svc.reqs) = Len(svc.served)
        /\ \A i \in 1..(Len(svc.served) - 1) : ~EndsListing(svc.served[i])
        /\ svc.phase = "done" <=>
               (svc.served # <<>> /\ EndsListing(svc.served[Len(svc.served)]))

\* Once ListAll has returned nothing is requested any more: the only step
\* left is the caller's taking the results.
NothingAfterReturn ==
    (svc.op = "ListAll" /\ svc.phase = "done") =>
        (svc' = NoSvc /\ rateLimits' = rateLimits)

\* C27: against a server whose cursor chain ends with an empty nextCursor
\* at page n, or that fails at page n, ListAll returns, after exactly n
\* requests, and leaves no work behind that would send a request after it
\* has returned.
C27_ListAllTerminates ==
    /\ []StopsAtFirstEnd
    /\ [][NothingAfterReturn]_vars
    /\ (svc.op = "ListAll" /\ svc.phase = "run") ~> (svc.op = "ListAll" /\ svc.phase = "done")

\* C27 witness: ListAll has returned after three requests, the third page
\* being the first without a nextCursor.
C27_Witness ==
    /\ svc.op = "ListAll" /\ svc.phase = "done"
    /\ Len(svc.reqs) = 3
    /\ ~EndsListing(svc.served[1])
    /\ ~EndsListing(svc.served[2])
    /\ ~IsFailure(svc.served[3])
    /\ PageCursor(svc.served[3]) = ""

----------------------------------------------------------------------------
(* Progress of concurrent callers                                          *)

\* Do is under way for goroutine p.
Running(p) == pc[p] \notin {"idle", "done"}

\* No goroutine holds both mutexes at once, and a goroutine that is not
\* inside Do holds neither.
MutexesDisjoint ==
    \A p \in Goroutines :
        /\ ~(clientMu = p /\ rateMu = p)
        /\ ~Running(p) => (clientMu # p /\ rateMu # p)
        /\ clientMu = p <=> pc[p] \in {"send", "unlock"}
        /\ rateMu = p <=> pc[p] \in {"rateStore", "rateUnlock"}

\* C28: under fair scheduling, every send completing, each of the
\* concurrent calls of Do returns; no goroutine ever holds the transport
\* mutex and the rate mutex together, and each mutex is released on every
\* path out of Do.
C28_EveryCallReturns ==
    /\ []MutexesDisjoint
    /\ \A p \in Goroutines : Running(p) ~> (pc[p] = "done")

\* C28 witness: one goroutine has returned while the other waits for the
\* transport mutex, which is free again.
C28_Witness ==
    /\ pc["g1"] = "done"
    /\ ~flight["g1"].err
    /\ call["g1"].ctx = "live"
    /\ pc["g2"] = "lock"
    /\ clientMu = NoCaller
    /\ rateMu = NoCaller

----------------------------------------------------------------------------
(* The rate cache under concurrent callers                                 *)

\* Both goroutines have returned from a call for the same path that was
\* answered.
BothAnswered ==
    /\ \A p \in Goroutines : pc[p] = "done" /\ call[p].ctx # "nil" /\ ~flight[p].err
    /\ call["g1"].path = call["g2"].path

\* The goroutine whose response the transport delivered last.
LastDelivered == CHOOSE p \in Goroutines : \A q \in Goroutines : flight[q].seq <= flight[p].seq

\* C29: when Do calls for the same path run concurrently, then after all of
\* them have returned the cache entry of that path holds the Rate of the
\* response the transport delivered last.
C29_LastDeliveredWins ==
    BothAnswered =>
        rateLimits[call["g1"].path] = newResponse(flight[LastDelivered]).rate

\* Do failed for goroutine p before any response was received.
FailedEarly(p) == call[p].ctx = "nil" \/ flight[p].err

\* A call that failed before any response returns no Response and an
\* error, and never comes to the store of the rate.
NoResponseNoStore ==
    \A p \in Goroutines :
        /\ (pc[p] = "done" /\ FailedEarly(p)) =>
               (ret[p].resp = NilResponse /\ ret[p].err # NoErr)
        /\ pc[p] \in {"rateLock", "rateStore", "rateUnlock", "check"} => ~FailedEarly(p)

\* Every step of a goroutine leaves the cache as it is, but the store of a
\* call that received a response, which changes the entry of its own path
\* at most.
OnlyOwnEntry ==
    /\ rateLimits' # rateLimits =>
           \E p \in Goroutines : pc[p] = "rateStore" /\ pc'[p] = "rateUnlock"
    /\ \A p \in Goroutines :
           pc'[p] # pc[p] =>
               IF pc[p] = "rateStore"
               THEN /\ ~FailedEarly(p)
                    /\ \A q \in Paths \ {call[p].path} : rateLimits'[q] = rateLimits[q]
               ELSE rateLimits' = rateLimits

\* C30: a Do call that fails before any response is received (nil context,
\* transport error, cancellation) returns a nil Response and leaves the
\* whole rate cache unchanged; a call that receives a response changes no
\* entry but the one of its own request path.
C30_CacheFrame == []NoResponseNoStore /\ [][OnlyOwnEntry]_vars

\* C30 witness: a call was cancelled and failed in the transport after an
\* earlier response had been recorded for its path; the entry is still
\* there and the call returned no Response.
C30_Witness ==
    \E p \in Goroutines :
        /\ pc[p] = "done"
        /\ flight[p].err
        /\ call[p].ctx = "done"
        /\ ret[p].resp.isNil
        /\ ret[p].err = CtxErr
        /\ rateLimits[call[p].path].Limit = 100

====
